---- MODULE Spec2Model ----
(***************************************************************************)
(* tiny-uom: quantities whose unit is a vector of 7 const-generic i8       *)
(* exponents and whose value is an f32 (src/lib.rs, src/si.rs).            *)
(*                                                                         *)
(* A quantity is modelled as a record [unit, value]: `unit` is the tuple   *)
(* of const generic arguments <m, kg, s, A, K, mol, cd> of its type,       *)
(* `value` is the f32 field.  The trait implementations the macro          *)
(* quantity_impl! generates are the operators below; an operator use for   *)
(* which no implementation exists does not type-check, which is modelled   *)
(* as the outcome Rejected.                                                *)
(***************************************************************************)
EXTENDS Integers, Sequences, FiniteSets, TLC

(***************************************************************************)
(* The backing type f32 (IEEE-754 binary32, round to nearest, ties to     *)
(* even).  A value is [c, s, m, e]: class c, sign bit s and, for a finite  *)
(* value, the magnitude m * 2^e with m odd (or m = 0, e = 0 for a zero).   *)
(***************************************************************************)
MantissaDigits == 24

MinExp == -149

MaxExp == 128

NaN == [c |-> "nan", s |-> 0, m |-> 0, e |-> 0]

Inf(s) == [c |-> "inf", s |-> s, m |-> 0, e |-> 0]

Zero(s) == [c |-> "fin", s |-> s, m |-> 0, e |-> 0]

Max(a, b) == IF a >= b THEN a ELSE b

Min(a, b) == IF a <= b THEN a ELSE b

RECURSIVE BitLen(_)
BitLen(n) == IF n = 0 THEN 0 ELSE 1 + BitLen(n \div 2)

RECURSIVE Canon(_, _, _)
Canon(s, m, e) ==
  IF m = 0 THEN Zero(s)
  ELSE IF m % 2 = 0 THEN Canon(s, m \div 2, e + 1)
  ELSE [c |-> "fin", s |-> s, m |-> m, e |-> e]

\* The f32 nearest to (-1)^s * (M + f) * 2^E, where 0 < f < 1 if sticky and
\* f = 0 otherwise; a sticky M carries at least MantissaDigits + 2 bits.
Round(s, M, E, sticky) ==
  LET shift == Max(BitLen(M) - MantissaDigits, MinExp - E)
  IN  IF shift <= 0
      THEN IF BitLen(M) + E > MaxExp THEN Inf(s) ELSE Canon(s, M, E)
      ELSE LET q    == IF shift > 30 THEN 0 ELSE M \div (2 ^ shift)
               r    == IF shift > 30 THEN M ELSE M % (2 ^ shift)
               half == IF shift > 30 THEN 2 ^ 30 ELSE 2 ^ (shift - 1)
               up   == \/ r > half
                       \/ r = half /\ (sticky \/ q % 2 = 1)
               q2   == IF up THEN q + 1 ELSE q
           IN  IF BitLen(q2) + E + shift > MaxExp THEN Inf(s)
               ELSE Canon(s, q2, E + shift)

FNeg(a) == IF a.c = "nan" THEN NaN ELSE [a EXCEPT !.s = 1 - a.s]

\* a + b for finite non-zero a and b.
AddFinite(a, b) ==
  LET e0   == Min(a.e, b.e)
      fits == /\ BitLen(a.m) + (a.e - e0) <= 30
              /\ BitLen(b.m) + (b.e - e0) <= 30
  IN  IF fits
      THEN LET A == a.m * (2 ^ (a.e - e0)) * (IF a.s = 1 THEN -1 ELSE 1)
               B == b.m * (2 ^ (b.e - e0)) * (IF b.s = 1 THEN -1 ELSE 1)
               S == A + B
           IN  IF S = 0 THEN Zero(0)
               ELSE IF S < 0 THEN Round(1, -S, e0, FALSE)
               ELSE Round(0, S, e0, FALSE)
      ELSE LET hi == IF a.e >= b.e THEN a ELSE b
               lo == IF a.e >= b.e THEN b ELSE a
               g  == 28 - BitLen(hi.m)
               H  == hi.m * (2 ^ g)
               eh == hi.e - g
               sh == eh - lo.e
               L  == IF sh > 30 THEN 0 ELSE lo.m \div (2 ^ sh)
               st == IF sh > 30 THEN TRUE ELSE lo.m % (2 ^ sh) # 0
               M  == IF hi.s = lo.s THEN H + L
                     ELSE H - L - (IF st THEN 1 ELSE 0)
           IN  Round(hi.s, M, eh, st)

\* f32 addition (the `+` and `+=` of lib.rs on `value`).
FAdd(a, b) ==
  IF a.c = "nan" \/ b.c = "nan" THEN NaN
  ELSE IF a.c = "inf" /\ b.c = "inf" THEN IF a.s = b.s THEN a ELSE NaN
  ELSE IF a.c = "inf" THEN a
  ELSE IF b.c = "inf" THEN b
  ELSE IF a.m = 0 /\ b.m = 0 THEN Zero(IF a.s = 1 /\ b.s = 1 THEN 1 ELSE 0)
  ELSE IF a.m = 0 THEN b
  ELSE IF b.m = 0 THEN a
  ELSE AddFinite(a, b)

\* f32 subtraction (the `-` and `-=` of lib.rs on `value`).
FSub(a, b) == FAdd(a, FNeg(b))

XorSign(a, b) == IF a.s = b.s THEN 0 ELSE 1

\* a * b for finite non-zero a and b; a product of more than 30 bits is
\* formed in two 24-bit limbs and cut to 28 bits and a sticky bit.
MulFinite(a, b) ==
  LET bits == BitLen(a.m) + BitLen(b.m)
  IN  IF bits <= 30
      THEN Round(XorSign(a, b), a.m * b.m, a.e + b.e, FALSE)
      ELSE LET ah  == a.m \div 4096
               al  == a.m % 4096
               bh  == b.m \div 4096
               bl  == b.m % 4096
               mid == ah * bl + al * bh
               c   == (mid % 4096) * 4096 + al * bl
               lo  == c % (2 ^ 24)
               hi  == ah * bh + mid \div 4096 + c \div (2 ^ 24)
               sh  == bits - 28
               M   == hi * (2 ^ (24 - sh)) + lo \div (2 ^ sh)
           IN  Round(XorSign(a, b), M, a.e + b.e + sh, lo % (2 ^ sh) # 0)

\* f32 multiplication (the `*` and `*=` of lib.rs on `value`).
FMul(a, b) ==
  IF a.c = "nan" \/ b.c = "nan" THEN NaN
  ELSE IF a.c = "inf" \/ b.c = "inf"
       THEN IF (a.c = "fin" /\ a.m = 0) \/ (b.c = "fin" /\ b.m = 0)
            THEN NaN ELSE Inf(XorSign(a, b))
  ELSE IF a.m = 0 \/ b.m = 0 THEN Zero(XorSign(a, b))
  ELSE MulFinite(a, b)

\* k further quotient bits of r / d appended to q: <<quotient, remainder>>.
RECURSIVE DivBits(_, _, _, _)
DivBits(q, r, d, k) ==
  IF k = 0 THEN <<q, r>>
  ELSE IF 2 * r >= d THEN DivBits(2 * q + 1, 2 * r - d, d, k - 1)
  ELSE DivBits(2 * q, 2 * r, d, k - 1)

\* f32 division (the `/` and `/=` of lib.rs on `value`); a zero divisor is
\* not trapped: it gives an infinity, or NaN for 0 / 0.
FDiv(a, b) ==
  IF a.c = "nan" \/ b.c = "nan" THEN NaN
  ELSE IF a.c = "inf" THEN IF b.c = "inf" THEN NaN ELSE Inf(XorSign(a, b))
  ELSE IF b.c = "inf" THEN Zero(XorSign(a, b))
  ELSE IF b.m = 0 THEN IF a.m = 0 THEN NaN ELSE Inf(XorSign(a, b))
  ELSE IF a.m = 0 THEN Zero(XorSign(a, b))
  ELSE LET k  == 26 + BitLen(b.m) - BitLen(a.m)
           qr == DivBits(a.m \div b.m, a.m % b.m, b.m, k)
       IN  Round(XorSign(a, b), qr[1], a.e - b.e - k, qr[2] # 0)

\* f32 `==` (PartialEq): NaN equals nothing, the two zeros are equal.
FEq(a, b) ==
  /\ a.c # "nan" /\ b.c # "nan"
  /\ \/ a = b
     \/ a.c = "fin" /\ b.c = "fin" /\ a.m = 0 /\ b.m = 0

\* The f32 with the integer value n.
F(n) == IF n < 0 THEN Canon(1, -n, 0) ELSE Canon(0, n, 0)

(***************************************************************************)
(* Units: the const generic arguments <m, kg, s, A, K, mol, cd> of         *)
(* Quantity, each an i8.                                                   *)
(***************************************************************************)
I8Min == -128

I8Max == 127

\* The base dimensions in the order of the macro invocation.
Dims == <<"m", "kg", "s", "A", "K", "mol", "cd">>

NumDims == Len(Dims)

IsUnit(u) == /\ DOMAIN u = 1..NumDims
             /\ \A i \in 1..NumDims : u[i] \in I8Min..I8Max

\* What the compiler answers to an expression that has no type: a const
\* argument that is no i8, or an operator with no implementation for the
\* operand types.
Rejected == [error |-> "does not compile"]

Quantity(u, v) == [unit |-> u, value |-> v]

IsQuantity(x) == DOMAIN x = {"unit", "value"}

IsScalar(x) == DOMAIN x = {"c", "s", "m", "e"}

\* Quantity::<u>::new(value)
new(u, value) == IF IsUnit(u) THEN Quantity(u, value) ELSE Rejected

\* add with `Rhs` any Quantity instead of Self.
add_any_unit(self, rhs) ==
  IF IsQuantity(self) /\ IsQuantity(rhs)
  THEN Quantity(self.unit, FAdd(self.value, rhs.value))
  ELSE Rejected

\* impl Add<Quantity<U>> for Quantity<U>: Rhs and Output are Self.
add(self, rhs) ==
  IF IsQuantity(self) /\ IsQuantity(rhs) /\ self.unit = rhs.unit
  THEN Quantity(self.unit, FAdd(self.value, rhs.value))
  ELSE Rejected

\* impl AddAssign<Quantity<U>> for Quantity<U>: self after `self += rhs`.
add_assign(self, rhs) ==
  IF IsQuantity(self) /\ IsQuantity(rhs) /\ self.unit = rhs.unit
  THEN [self EXCEPT !.value = FAdd(self.value, rhs.value)]
  ELSE Rejected

\* sub with the body of add.
sub_adds(self, rhs) ==
  IF IsQuantity(self) /\ IsQuantity(rhs) /\ self.unit = rhs.unit
  THEN Quantity(self.unit, FAdd(self.value, rhs.value))
  ELSE Rejected

\* impl Sub<Quantity<U>> for Quantity<U>
sub(self, rhs) ==
  IF IsQuantity(self) /\ IsQuantity(rhs) /\ self.unit = rhs.unit
  THEN Quantity(self.unit, FSub(self.value, rhs.value))
  ELSE Rejected

\* impl SubAssign<Quantity<U>> for Quantity<U>: self after `self -= rhs`.
sub_assign(self, rhs) ==
  IF IsQuantity(self) /\ IsQuantity(rhs) /\ self.unit = rhs.unit
  THEN [self EXCEPT !.value = FSub(self.value, rhs.value)]
  ELSE Rejected

Wrap(i) == ((i - I8Min) % (I8Max - I8Min + 1)) + I8Min

\* mul where `f32 * Quantity` adds the scalars.
mul_f32_adds(self, rhs) ==
  IF IsQuantity(self) /\ IsScalar(rhs)
  THEN Quantity(self.unit, FMul(self.value, rhs))
  ELSE IF IsScalar(self) /\ IsQuantity(rhs)
  THEN Quantity(rhs.unit, FAdd(self, rhs.value))
  ELSE Rejected

\* mul with a further implementation, Quantity * Quantity, whose exponents
\* are added with i8::wrapping_add.
mul_wrapping(self, rhs) ==
  IF IsQuantity(self) /\ IsScalar(rhs)
  THEN Quantity(self.unit, FMul(self.value, rhs))
  ELSE IF IsScalar(self) /\ IsQuantity(rhs)
  THEN Quantity(rhs.unit, FMul(self, rhs.value))
  ELSE IF IsQuantity(self) /\ IsQuantity(rhs)
  THEN Quantity([i \in 1..NumDims |-> Wrap(self.unit[i] + rhs.unit[i])],
                FMul(self.value, rhs.value))
  ELSE Rejected

\* impl Mul<f32> for Quantity<U> and impl Mul<Quantity<U>> for f32: the
\* only implementations of `*` that involve a Quantity.
mul(self, rhs) ==
  IF IsQuantity(self) /\ IsScalar(rhs)
  THEN Quantity(self.unit, FMul(self.value, rhs))
  ELSE IF IsScalar(self) /\ IsQuantity(rhs)
  THEN Quantity(rhs.unit, FMul(self, rhs.value))
  ELSE Rejected

\* mul_assign with the body of div_assign.
mul_assign_divides(self, rhs) ==
  IF IsQuantity(self) /\ IsScalar(rhs)
  THEN [self EXCEPT !.value = FDiv(self.value, rhs)]
  ELSE Rejected

\* impl MulAssign<f32> for Quantity<U>: self after `self *= rhs`.
mul_assign(self, rhs) ==
  IF IsQuantity(self) /\ IsScalar(rhs)
  THEN [self EXCEPT !.value = FMul(self.value, rhs)]
  ELSE Rejected

\* impl Div<f32> for Quantity<U>: the only implementation of `/` that
\* involves a Quantity.
div(self, rhs) ==
  IF IsQuantity(self) /\ IsScalar(rhs)
  THEN Quantity(self.unit, FDiv(self.value, rhs))
  ELSE Rejected

\* impl DivAssign<f32> for Quantity<U>: self after `self /= rhs`.
div_assign(self, rhs) ==
  IF IsQuantity(self) /\ IsScalar(rhs)
  THEN [self EXCEPT !.value = FDiv(self.value, rhs)]
  ELSE Rejected

\* values with the metre left at f32's default, 0.0.
values_m_zero ==
  [s   |-> Quantity(<<0, 0, 1, 0, 0, 0, 0>>, F(1)),
   m   |-> Quantity(<<1, 0, 0, 0, 0, 0, 0>>, F(0)),
   kg  |-> Quantity(<<0, 1, 0, 0, 0, 0, 0>>, F(1)),
   A   |-> Quantity(<<0, 0, 0, 0, 0, 0, 0>>, F(1)),
   K   |-> Quantity(<<0, 0, 0, 0, 0, 0, 0>>, F(1)),
   mol |-> Quantity(<<0, 0, 0, 0, 0, 0, 0>>, F(1)),
   cd  |-> Quantity(<<0, 0, 0, 0, 0, 0, 0>>, F(1))]

\* mod values of si.rs
values ==
  [s   |-> Quantity(<<0, 0, 1, 0, 0, 0, 0>>, F(1)),
   m   |-> Quantity(<<1, 0, 0, 0, 0, 0, 0>>, F(1)),
   kg  |-> Quantity(<<0, 1, 0, 0, 0, 0, 0>>, F(1)),
   A   |-> Quantity(<<0, 0, 0, 0, 0, 0, 0>>, F(1)),
   K   |-> Quantity(<<0, 0, 0, 0, 0, 0, 0>>, F(1)),
   mol |-> Quantity(<<0, 0, 0, 0, 0, 0, 0>>, F(1)),
   cd  |-> Quantity(<<0, 0, 0, 0, 0, 0, 0>>, F(1))]

(***************************************************************************)
(* A program using the crate: a mutable variable x and an immutable        *)
(* variable y, each holding a quantity, and the last expression or         *)
(* statement the program evaluated.                                        *)
(***************************************************************************)
VARIABLES
  x,      \* the Quantity held by `let mut x`
  y,      \* the Quantity held by `let y`
  decl,   \* the const generic arguments of the declared type of x
  last,   \* the last expression: operator, operands, outcome
  n       \* number of arithmetic results the value of x derives from

vars == <<x, y, decl, last, n>>

\* Longest chain of arithmetic results stored in x.
MaxOps == 2

Base(d) == [i \in 1..NumDims |-> IF i = d THEN 1 ELSE 0]

\* Const generic arguments written by the program; the last is no i8.
UnitInputs ==
  {Base(1), [Base(1) EXCEPT ![1] = I8Max], [Base(1) EXCEPT ![1] = I8Max + 1]}

\* f32 literals written by the program.
Scalars == {F(0), F(2), F(3)}

\* The quantities the program uses as operands.
Quantities == {x, y}

Arithmetic == {"add", "sub", "mul", "div"}

InPlace == {"add_assign", "sub_assign", "mul_assign", "div_assign"}

\* op: the operator, the constructor ("new") or a constant ("const");
\* lhs, rhs: the operands, each a quantity or an f32 (for "new" the const
\* arguments and the f32, for "const" the name); out: the value, or Rejected.
Expr(op, lhs, rhs, out) == [op |-> op, lhs |-> lhs, rhs |-> rhs, out |-> out]

Init ==
  /\ x = values.m
  /\ y = values.s
  /\ decl = values.m.unit
  /\ last = Expr("none", Rejected, Rejected, Rejected)
  /\ n = 0

\* `lhs op rhs`, `Quantity::<u>::new(v)` or `values::c` as an expression:
\* its value is a temporary, nothing is stored.
Eval(op, lhs, rhs, out) ==
  /\ last' = Expr(op, lhs, rhs, out)
  /\ UNCHANGED <<x, y, decl, n>>

\* `x op= rhs;`: x holds `out`, unless the statement does not compile.
Assign(op, rhs, out) ==
  /\ n < MaxOps
  /\ last' = Expr(op, x, rhs, out)
  /\ IF IsQuantity(out)
     THEN x' = out /\ n' = n + 1
     ELSE UNCHANGED <<x, n>>
  /\ UNCHANGED <<y, decl>>

\* `let mut x = <the last expression>;` x is declared anew, with the type
\* of the expression.
LetX ==
  /\ last.op \in Arithmetic \cup {"new", "const"}
  /\ IsQuantity(last.out)
  /\ last.op \in Arithmetic => n < MaxOps
  /\ x' = last.out
  /\ decl' = last.out.unit
  /\ n' = IF last.op \in Arithmetic THEN n + 1 ELSE 0
  /\ UNCHANGED <<y, last>>

\* `let y = values::c;` after the constant was evaluated.
LetY ==
  /\ last.op = "const"
  /\ y' = last.out
  /\ UNCHANGED <<x, decl, last, n>>

New(u, v) == Eval("new", [unit |-> u], v, new(u, v))

Const(c) == Eval("const", [name |-> c], [name |-> c], values[c])

Add(a, b) == Eval("add", a, b, add(a, b))

Sub(a, b) == Eval("sub", a, b, sub(a, b))

Mul(a, b) == Eval("mul", a, b, mul(a, b))

Div(a, b) == Eval("div", a, b, div(a, b))

AddAssign(b) == Assign("add_assign", b, add_assign(x, b))

SubAssign(b) == Assign("sub_assign", b, sub_assign(x, b))

MulAssign(b) == Assign("mul_assign", b, mul_assign(x, b))

DivAssign(b) == Assign("div_assign", b, div_assign(x, b))

Next ==
  \/ \E u \in UnitInputs, v \in Scalars : New(u, v)
  \/ \E c \in DOMAIN values : Const(c)
  \/ LetX
  \/ LetY
  \/ \E b \in Quantities : Add(x, b)
  \/ \E b \in Quantities : Sub(x, b)
  \/ \E b \in Quantities \cup Scalars : Mul(x, b)
  \/ \E a \in Scalars : Mul(a, x)
  \/ \E b \in Quantities \cup Scalars : Div(x, b)
  \/ \E a \in Scalars : Div(a, x)
  \/ \E b \in Quantities : AddAssign(b)
  \/ \E b \in Quantities : SubAssign(b)
  \/ \E b \in Quantities \cup Scalars : MulAssign(b)
  \/ \E b \in Quantities \cup Scalars : DivAssign(b)

Spec == Init /\ [][Next]_vars

TypeOK ==
  /\ IsQuantity(x) /\ IsUnit(x.unit)
  /\ IsQuantity(y) /\ IsUnit(y.unit)
  /\ n \in 0..MaxOps

(***************************************************************************)
(* Properties                                                              *)
(***************************************************************************)
UnitSum(a, b) == [i \in 1..NumDims |-> a[i] + b[i]]

UnitDiff(a, b) == [i \in 1..NumDims |-> a[i] - b[i]]

IsZero(v) == v.c = "fin" /\ v.m = 0

IsConstant(v) == \E c \in DOMAIN values : v = values[c]

\* The last expression applied an operator of `ops` to two quantities.
OnQuantities(ops) ==
  last.op \in ops /\ IsQuantity(last.lhs) /\ IsQuantity(last.rhs)

\* The last expression applied an operator of `ops` to a quantity and an f32.
OnScalar(ops) ==
  last.op \in ops /\ IsQuantity(last.lhs) /\ IsScalar(last.rhs)

\* The step evaluated an expression or statement (`let` leaves `last` as is).
Evaluated == last' # last

\* C1: a * b of two quantities is a quantity whose exponents are the
\* component-wise sums and whose scalar is the product of the scalars.
C1_MulAddsExponents ==
  OnQuantities({"mul"}) =>
    /\ IsQuantity(last.out)
    /\ last.out.unit = UnitSum(last.lhs.unit, last.rhs.unit)
    /\ last.out.value = FMul(last.lhs.value, last.rhs.value)

\* C2: a / b of two quantities, b.value not zero, is a quantity whose
\* exponents are the component-wise differences and whose scalar is the
\* quotient of the scalars.
C2_DivSubtractsExponents ==
  OnQuantities({"div"}) /\ ~IsZero(last.rhs.value) =>
    /\ IsQuantity(last.out)
    /\ last.out.unit = UnitDiff(last.lhs.unit, last.rhs.unit)
    /\ last.out.value = FDiv(last.lhs.value, last.rhs.value)

\* C3: add, sub, add_assign and sub_assign of two quantities whose exponent
\* vectors differ are rejected: there is no result value, and x is not
\* assigned.
C3_MismatchRejected ==
  /\ [](OnQuantities({"add", "sub", "add_assign", "sub_assign"})
         /\ last.lhs.unit # last.rhs.unit
         => ~IsQuantity(last.out) /\ last.out = Rejected)
  /\ [][OnQuantities({"add", "sub", "add_assign", "sub_assign"})'
          /\ Evaluated /\ last'.lhs.unit # last'.rhs.unit
          => UNCHANGED <<x, y, decl, n>>]_vars

C3_Witness ==
  /\ last.op = "add_assign"
  /\ last.lhs.unit = Base(1) /\ last.rhs.unit = Base(3)
  /\ last.out = Rejected

\* C4: every constant of `values` has scalar 1.0 and exponent 1 at the
\* position of its own base dimension, 0 elsewhere.
C4_ConstantsAreBaseUnits ==
  last.op = "const" =>
    /\ last.out.value = F(1)
    /\ \E d \in 1..NumDims : Dims[d] = last.lhs.name /\ last.out.unit = Base(d)

\* C5: for a and b of the same exponent vector E, a + b (a - b) is a
\* quantity of exponent vector E whose scalar is a.value + b.value
\* (a.value - b.value); the operands are not changed.
C5_AddSubSameUnit ==
  /\ [](OnQuantities({"add"}) /\ last.lhs.unit = last.rhs.unit
         => last.out = Quantity(last.lhs.unit,
                                FAdd(last.lhs.value, last.rhs.value)))
  /\ [](OnQuantities({"sub"}) /\ last.lhs.unit = last.rhs.unit
         => last.out = Quantity(last.lhs.unit,
                                FSub(last.lhs.value, last.rhs.value)))
  /\ [][OnQuantities({"add", "sub"})' /\ Evaluated
          => x' = x /\ y' = y /\ last'.lhs = x /\ last'.rhs \in {x, y}]_vars

C5_Witness ==
  /\ last.op = "sub"
  /\ last.lhs = Quantity(Base(1), F(3)) /\ last.rhs = Quantity(Base(1), F(1))
  /\ last.out = Quantity(Base(1), F(2))

\* C6: q * k and k * q are the same quantity, of the exponent vector of q
\* and scalar q.value * k; q / k has the exponent vector of q and scalar
\* q.value / k.
C6_ScalarScaling ==
  /\ OnScalar({"mul"})
       => /\ last.out = Quantity(last.lhs.unit, FMul(last.lhs.value, last.rhs))
          /\ last.out = mul(last.rhs, last.lhs)
  /\ last.op = "mul" /\ IsScalar(last.lhs) /\ IsQuantity(last.rhs)
       => /\ last.out = Quantity(last.rhs.unit, FMul(last.rhs.value, last.lhs))
          /\ last.out = mul(last.rhs, last.lhs)
  /\ OnScalar({"div"})
       => last.out = Quantity(last.lhs.unit, FDiv(last.lhs.value, last.rhs))

C6_Witness ==
  /\ last.op = "mul"
  /\ last.lhs = F(2) /\ last.rhs = Quantity(Base(1), F(5))
  /\ last.out = Quantity(Base(1), F(10))

Binary(op, a, b) ==
  CASE op = "add_assign" -> add(a, b)
    [] op = "sub_assign" -> sub(a, b)
    [] op = "mul_assign" -> mul(a, b)
    [] op = "div_assign" -> div(a, b)

\* C8: x keeps the exponent vector it was declared with; an in-place
\* operator changes only the scalar of x, to the scalar the binary operator
\* returns, and leaves the right operand as it was.
C8_InPlaceKeepsUnit ==
  /\ [](x.unit = decl)
  /\ [][last'.op \in InPlace /\ Evaluated /\ IsQuantity(last'.out)
          => /\ x'.unit = x.unit /\ decl' = decl
             /\ x'.value = Binary(last'.op, x, last'.rhs).value
             /\ y' = y
             /\ last'.rhs \in {x, y} \cup Scalars]_vars

C8_Witness ==
  /\ last.op = "mul_assign" /\ n >= 2
  /\ last.lhs = Quantity(Base(1), F(6)) /\ last.rhs = F(2)
  /\ x = Quantity(Base(1), F(12)) /\ decl = Base(1)

\* C9: an operator applied to operands it is applicable to (the same
\* exponent vector for add and subtract, any scalar or quantity for
\* multiply and divide) returns a quantity; a zero divisor gives an
\* infinite or NaN scalar.
C9_NoErrorOutcome ==
  /\ OnQuantities({"add", "sub", "add_assign", "sub_assign"})
       /\ last.lhs.unit = last.rhs.unit
       => IsQuantity(last.out)
  /\ OnQuantities({"mul", "div"}) => IsQuantity(last.out)
  /\ OnScalar({"mul", "div", "mul_assign", "div_assign"})
       => IsQuantity(last.out)
  /\ last.op = "mul" /\ IsScalar(last.lhs) /\ IsQuantity(last.rhs)
       => IsQuantity(last.out)
  /\ OnScalar({"div", "div_assign"}) /\ IsZero(last.rhs)
       => IsQuantity(last.out) /\ last.out.value.c \in {"inf", "nan"}

====
